---------------------------- MODULE Spec2Model ----------------------------
(***************************************************************************)
(* Bracket generation and match progression of the scoreboard application *)
(* (app/blueprints/bracket.py, api.py, external_api.py).                   *)
(*                                                                         *)
(* The match table is the sequence `matches`; the id of a row is its      *)
(* index (rows are inserted in the order of db.session.add, ids grow by   *)
(* one).  A NULL column is the value NULL (0); team ids are 1, 2, ...      *)
(***************************************************************************)
EXTENDS Integers, Sequences, FiniteSets, TLC

VARIABLES
    tournament,   \* the Tournament row: [format, current_phase]
    matches,      \* the match table, indexed by Match.id
    teams,        \* team_ids handed to the last generator call
    gens,         \* number of generator calls so far
    calls,        \* number of match requests handled so far
    last,         \* the last request handled: [op, id, winner, status]
    reqs,         \* concurrent complete_match requests in flight (SpecRace)
    locks,        \* row locks held: pairs <<request, match id>> (SpecRace)
    elsewhere     \* is_current of the matches of a second tournament, by position

vars == <<tournament, matches, teams, gens, calls, last, reqs, locks, elsewhere>>

(***************************************************************************)
(* Bounds of the model.                                                    *)
(***************************************************************************)
MaxTeams == 5          \* team counts 0..MaxTeams of brackets that requests run on (Spec, SpecRace)
MaxRotate == 1         \* random.shuffle yields the rotations 0..MaxRotate, plain or reversed
MaxGenTeams == 8       \* team counts 0..MaxGenTeams of the one generator call (SpecGen)
MaxGenCalls == 2       \* generator calls on one tournament (SpecRegen)
MaxRegenTeams == 5     \* team counts 0..MaxRegenTeams of repeated generator calls (SpecRegen)
MaxRows == 3           \* a generator call is repeated on tournaments of at most MaxRows matches (SpecRegen)
MaxCalls == 2          \* match requests after generation (Spec)
MaxScore == 1          \* add_point is followed up to this score
MaxBracketTeams == 8   \* team counts of the single-elimination runs (SpecSession, SpecPlay)
MaxSessionCalls == 4   \* session-path requests after generation (SpecSession)
MaxPlayoffTeams == 5   \* team counts 4..MaxPlayoffTeams of the group-stage runs (SpecPlayoffs)
MaxPlayoffCalls == 4   \* results and points recorded after generation (SpecPlayoffs)
MaxFinalsTeams == 5    \* team counts 5..MaxFinalsTeams of the tournaments played to the end (SpecFinals)
MaxStandingsTeams == 5 \* team counts 3..MaxStandingsTeams of the tournaments with standings (SpecStandings)
MaxStandingsCalls == 2 \* session requests after generation (SpecStandings)
MaxNextTeams == 4      \* team counts 2..MaxNextTeams of the tournaments asked for their next match (SpecNext)
MaxNextCalls == 1      \* completions before the next match is asked for (SpecNext)
MaxTokenTeams == 5     \* teams of a bracket driven over the token path (SpecToken)
MaxTokenCalls == 5     \* token completions sent to it (SpecToken)
MaxOtherRows == 2      \* matches of the second tournament; its first one starts current
MaxCurrentTeams == 3   \* teams of a tournament whose current match is set by hand (SpecCurrent)
MaxCurrentCalls == 3   \* requests sent to it (SpecCurrent)
MaxLeagueTeams == 4    \* teams of a round robin played to its end (SpecLeague, FairLeague)

NULL == 0

Formats == {"single_elimination", "double_elimination", "round_robin",
            "round_robin_playoffs", "swiss"}

\* "team_counts = [2, 3, 4, 64]" of test_generate_brackets
team_counts == {2, 3, 4, 64}

(***************************************************************************)
(* Arithmetic and list helpers.                                            *)
(***************************************************************************)
RECURSIVE Pow2(_)
Pow2(k) == IF k = 0 THEN 1 ELSE 2 * Pow2(k - 1)

\* math.ceil(math.log2(n)) for n >= 1
RECURSIVE CeilLog2From(_, _)
CeilLog2From(n, r) == IF Pow2(r) >= n THEN r ELSE CeilLog2From(n, r + 1)
CeilLog2(n) == CeilLog2From(n, 0)

Max(a, b) == IF a >= b THEN a ELSE b
Min(a, b) == IF a <= b THEN a ELSE b

Reverse(s) == [i \in 1..Len(s) |-> s[Len(s) + 1 - i]]
Rotate(s, k) == [i \in 1..Len(s) |-> s[((i - 1 + k) % Len(s)) + 1]]

\* random.shuffle(list): some permutation of the list.  The model follows the
\* rotations by 0..MaxRotate of the list and of its reversal.
Shuffles(s) ==
    IF Len(s) = 0 THEN {s}
    ELSE LET ks == 0..Min(MaxRotate, Len(s) - 1)
         IN  {Rotate(s, k) : k \in ks} \cup {Rotate(Reverse(s), k) : k \in ks}

\* "[m for m in all_matches if m.round_number == r]": the ids (indices) of the
\* rows of round r, in list order
RoundRows(ms, r) == SelectSeq([j \in 1..Len(ms) |-> j], LAMBDA j : ms[j].round_number = r)

\* 0-based position of value x in the sequence s of distinct values
RECURSIVE PosFrom(_, _, _)
PosFrom(s, x, i) == IF s[i] = x THEN i - 1 ELSE PosFrom(s, x, i + 1)
Pos(s, x) == PosFrom(s, x, 1)

(***************************************************************************)
(* Match rows (app/models.py).                                             *)
(***************************************************************************)
Match(round_num, match_num, t1, t2, mtype) ==
    [round_number |-> round_num, match_number |-> match_num,
     team1_id |-> t1, team2_id |-> t2,
     team1_score |-> 0, team2_score |-> 0,
     winner_id |-> NULL, is_current |-> FALSE, is_completed |-> FALSE,
     next_match_id |-> NULL, match_type |-> mtype]

\* not completed and both slots populated
Playable(m) == ~m.is_completed /\ m.team1_id # NULL /\ m.team2_id # NULL

\* (round_number, match_number) order
Before(a, b) ==
    \/ a.round_number < b.round_number
    \/ a.round_number = b.round_number /\ a.match_number < b.match_number

(***************************************************************************)
(* The least team count each generator accepts ("if num_teams < k: return")*)
(***************************************************************************)
SingleElimMinTeamsOff == 2 + 1
SwissMinTeamsOff == 4 + 1
DoubleElimMinTeamsOff == 3 - 1

SingleElimMinTeams == 2
DoubleElimMinTeams == 3
RoundRobinMinTeams == 3
PlayoffsMinTeams == 5
SwissMinTeams == 4

(***************************************************************************)
(* create_single_elimination_bracket                                       *)
(***************************************************************************)
\* the rows of rounds r..num_rounds, in creation order
RECURSIVE BracketRounds(_, _, _, _)
BracketRounds(r, num_rounds, bracket_size, mtype) ==
    IF r > num_rounds THEN <<>>
    ELSE [k \in 1..(bracket_size \div Pow2(r)) |-> Match(r, k, NULL, NULL, mtype)]
         \o BracketRounds(r + 1, num_rounds, bracket_size, mtype)

\* links every match of a round to a match of its own round
LinkSameRound(all, base, num_rounds) ==
    [j \in 1..Len(all) |->
        LET r == all[j].round_number
            current_round == RoundRows(all, r)
            next_match_idx == Pos(current_round, j) \div 2
        IN  IF r < num_rounds
            THEN [all[j] EXCEPT !.next_match_id = base + current_round[next_match_idx + 1]]
            ELSE all[j]]

\* "Link matches to next round": all is the list of new rows, base the id
\* before the first of them
LinkRounds(all, base, num_rounds) ==
    [j \in 1..Len(all) |->
        LET r == all[j].round_number
            current_round == RoundRows(all, r)
            next_round == RoundRows(all, r + 1)
            next_match_idx == Pos(current_round, j) \div 2
        IN  IF r < num_rounds /\ next_match_idx < Len(next_round)
            THEN [all[j] EXCEPT !.next_match_id = base + next_round[next_match_idx + 1]]
            ELSE all[j]]


\* always the first slot of the next match
ByeSlotFirst(match_number) == 1

\* "if match.match_number % 2 == 1: next_match.team1_id = ... else:
\* next_match.team2_id = ...": the slot of the next match a bye winner gets
ByeSlot(match_number) == IF match_number % 2 = 1 THEN 1 ELSE 2

\* one pass of the "Assign teams to first round" loop, from index i on; the
\* bye branches complete the match and seat its team in the next match
RECURSIVE AssignFirstRound(_, _, _, _, _)
AssignFirstRound(all, base, first_round, padded_teams, i) ==
    IF i >= Len(first_round) THEN all
    ELSE
        LET j == first_round[i + 1]
            team1_idx == i * 2
            team2_idx == i * 2 + 1
            t1 == IF team1_idx < Len(padded_teams)
                  THEN padded_teams[team1_idx + 1] ELSE all[j].team1_id
            t2 == IF team2_idx < Len(padded_teams)
                  THEN padded_teams[team2_idx + 1] ELSE all[j].team2_id
            seated == [all EXCEPT ![j].team1_id = t1, ![j].team2_id = t2]
            nxt == all[j].next_match_id - base
            Advance(ms, t) ==
                IF all[j].next_match_id = NULL THEN ms
                ELSE IF ByeSlot(all[j].match_number) = 1
                     THEN [ms EXCEPT ![nxt].team1_id = t]
                     ELSE [ms EXCEPT ![nxt].team2_id = t]
            stepped ==
                IF t1 # NULL /\ t2 = NULL
                THEN Advance([seated EXCEPT ![j].winner_id = t1,
                                            ![j].is_completed = TRUE], t1)
                ELSE IF t2 # NULL /\ t1 = NULL
                THEN Advance([seated EXCEPT ![j].winner_id = t2,
                                            ![j].is_completed = TRUE], t2)
                ELSE IF t1 = NULL /\ t2 = NULL
                THEN [seated EXCEPT ![j].is_completed = TRUE]
                ELSE seated
        IN  AssignFirstRound(stepped, base, first_round, padded_teams, i + 1)

\* "for match in all_matches: if not match.is_completed and match.team1_id and
\* match.team2_id: match.is_current = True; break"
MarkFirstPlayable(all, order) ==
    LET hits == SelectSeq(order, LAMBDA j : Playable(all[j]))
    IN  IF Len(hits) = 0 THEN all ELSE [all EXCEPT ![hits[1]].is_current = TRUE]

\* the matches from the last created to the first
Backwards(all) == [j \in 1..Len(all) |-> Len(all) + 1 - j]

\* "for match in all_matches": the matches in creation order
AllOf(all) == [j \in 1..Len(all) |-> j]

\* team_ids is the list after random.shuffle
create_single_elimination_bracket(ms, team_ids) ==
    LET num_teams == Len(team_ids) IN
    IF num_teams < SingleElimMinTeams THEN ms
    ELSE
        LET num_rounds == CeilLog2(num_teams)
            bracket_size == Pow2(num_rounds)
            num_byes == bracket_size - num_teams
            base == Len(ms)
            created == BracketRounds(1, num_rounds, bracket_size, "bracket")
            linked == LinkRounds(created, base, num_rounds)
            first_round == SortSeq(RoundRows(linked, 1),
                                   LAMBDA a, b : linked[a].match_number < linked[b].match_number)
            padded_teams == team_ids \o [k \in 1..num_byes |-> NULL]
            assigned == AssignFirstRound(linked, base, first_round, padded_teams, 0)
        IN  ms \o MarkFirstPlayable(assigned, AllOf(assigned))

(***************************************************************************)
(* create_double_elimination_bracket                                       *)
(***************************************************************************)
\* the losers-bracket rows of rounds round_num..losers_rounds
RECURSIVE LosersBracket(_, _, _, _)
LosersBracket(round_num, losers_rounds, total_slots, losers_match_num) ==
    IF round_num > losers_rounds THEN <<>>
    ELSE
        LET matches_in_round ==
                IF round_num % 2 = 1
                THEN Max(1, total_slots \div Pow2((round_num + 1) \div 2 + 1))
                ELSE Max(1, total_slots \div Pow2(round_num \div 2 + 1))
        IN  [k \in 1..matches_in_round |->
                Match(100 + round_num, losers_match_num + k - 1, NULL, NULL, "losers_bracket")]
            \o LosersBracket(round_num + 1, losers_rounds, total_slots,
                             losers_match_num + matches_in_round)

\* "for i, team_id in enumerate(playing_teams)", from index i on
RECURSIVE SeatPlaying(_, _, _, _)
SeatPlaying(all, first_round, playing_teams, i) ==
    IF i >= Len(playing_teams) THEN all
    ELSE
        LET match_idx == i \div 2
            stepped ==
                IF match_idx < Len(first_round)
                THEN IF i % 2 = 0
                     THEN [all EXCEPT ![first_round[match_idx + 1]].team1_id = playing_teams[i + 1]]
                     ELSE [all EXCEPT ![first_round[match_idx + 1]].team2_id = playing_teams[i + 1]]
                ELSE all
        IN  SeatPlaying(stepped, first_round, playing_teams, i + 1)

\* "for i, team_id in enumerate(bye_teams)", from index i on
RECURSIVE SeatByes(_, _, _, _)
SeatByes(all, second_round, bye_teams, i) ==
    IF i >= Len(bye_teams) THEN all
    ELSE
        LET stepped ==
                IF i < Len(second_round)
                THEN IF all[second_round[i + 1]].team1_id = NULL
                     THEN [all EXCEPT ![second_round[i + 1]].team1_id = bye_teams[i + 1]]
                     ELSE [all EXCEPT ![second_round[i + 1]].team2_id = bye_teams[i + 1]]
                ELSE all
        IN  SeatByes(stepped, second_round, bye_teams, i + 1)

\* "for match in first_round: if match.team1_id and match.team2_id:
\* match.is_current = True; break"
MarkFirstSeated(all, order) ==
    LET hits == SelectSeq(order, LAMBDA j : all[j].team1_id # NULL /\ all[j].team2_id # NULL)
    IN  IF Len(hits) = 0 THEN all ELSE [all EXCEPT ![hits[1]].is_current = TRUE]

\* team_ids is the list after random.shuffle
create_double_elimination_bracket(ms, team_ids) ==
    LET num_teams == Len(team_ids) IN
    IF num_teams < DoubleElimMinTeams THEN ms
    ELSE
        LET num_rounds == CeilLog2(num_teams)
            total_slots == Pow2(num_rounds)
            num_byes == total_slots - num_teams
            losers_rounds == (num_rounds - 1) * 2
            created == BracketRounds(1, num_rounds, total_slots, "bracket")
                       \o LosersBracket(1, losers_rounds, total_slots, 1)
                       \o <<Match(200, 1, NULL, NULL, "finals")>>
            first_round == RoundRows(created, 1)
            bye_teams == SubSeq(team_ids, 1, num_byes)
            playing_teams == SubSeq(team_ids, num_byes + 1, num_teams)
            played == SeatPlaying(created, first_round, playing_teams, 0)
            second_round == SelectSeq(RoundRows(played, 2),
                                      LAMBDA j : played[j].match_type = "bracket")
            seeded == SeatByes(played, second_round, bye_teams, 0)
        IN  ms \o MarkFirstSeated(seeded, first_round)

(***************************************************************************)
(* create_round_robin, create_round_robin_playoffs, create_swiss_round     *)
(***************************************************************************)
\* pairs every team with the next one of the list only
AdjacentPairs(s) == [i \in 1..(Len(s) - 1) |-> <<s[i], s[i + 1]>>]

\* list(itertools.combinations(s, 2)): the pairs <<s[i], s[j]>>, i < j, by (i, j)
RECURSIVE CombinationsFrom(_, _, _)
CombinationsFrom(s, i, j) ==
    IF i >= Len(s) THEN <<>>
    ELSE IF j > Len(s) THEN CombinationsFrom(s, i + 1, i + 2)
    ELSE <<(<<s[i], s[j]>>)>> \o CombinationsFrom(s, i, j + 1)
Combinations(s) == CombinationsFrom(s, 1, 2)

\* "for i, (team1_id, team2_id) in enumerate(all_pairings)", from index i on,
\* with the loop's round_num and match_num counters
RECURSIVE GroupRows(_, _, _, _, _)
GroupRows(all_pairings, i, round_num, match_num, matches_per_round) ==
    IF i > Len(all_pairings) THEN <<>>
    ELSE
        LET row == Match(round_num, match_num, all_pairings[i][1], all_pairings[i][2], "group")
            wraps == match_num + 1 > matches_per_round
        IN  <<row>> \o GroupRows(all_pairings, i + 1,
                                 IF wraps THEN round_num + 1 ELSE round_num,
                                 IF wraps THEN 1 ELSE match_num + 1,
                                 matches_per_round)

\* query.order_by(round_number, match_number).first() over the rows hits that
\* pass the query's filter: the ids of the rows the database may return (NULL
\* for none); rows equal in the ordering come in an order the database chooses
OrderedFirst(ms, hits) ==
        IF hits = {} THEN {NULL}
        ELSE {j \in hits : \A k \in hits : ~Before(ms[k], ms[j])}

\* "if first_match: first_match.is_current = True", for each row the query may return
MarkCurrent(ms, firsts) ==
    {IF f = NULL THEN ms ELSE [ms EXCEPT ![f].is_current = TRUE] : f \in firsts}

\* team_ids and all_pairings are the lists after random.shuffle
create_round_robin(ms, team_ids, all_pairings) ==
    LET num_teams == Len(team_ids) IN
    IF num_teams < RoundRobinMinTeams THEN {ms}
    ELSE
        LET matches_per_round == Max(1, num_teams \div 2)
            added == ms \o GroupRows(all_pairings, 1, 1, 1, matches_per_round)
        IN  MarkCurrent(added, OrderedFirst(added, 1..Len(added)))

\* finals.id is read while the finals row is pending (added to the session,
\* not flushed), so it is None: both semifinals get next_match_id = NULL
PendingId == NULL

create_round_robin_playoffs(ms, team_ids, all_pairings) ==
    LET num_teams == Len(team_ids) IN
    IF num_teams < PlayoffsMinTeams THEN {ms}
    ELSE
        LET matches_per_round == Max(1, num_teams \div 2)
            playoff_round == 100
            semi1 == [Match(playoff_round, 1, NULL, NULL, "bracket")
                        EXCEPT !.next_match_id = PendingId]
            semi2 == [Match(playoff_round, 2, NULL, NULL, "bracket")
                        EXCEPT !.next_match_id = PendingId]
            finals == Match(playoff_round + 1, 1, NULL, NULL, "finals")
            added == ms \o GroupRows(all_pairings, 1, 1, 1, matches_per_round)
                        \o <<semi1, semi2, finals>>
        IN  MarkCurrent(added, OrderedFirst(added,
                            {j \in 1..Len(added) : added[j].match_type = "group"}))

\* the pairing loop run to the end of the list: "for i in range(0, len(team_ids), 2)"
RECURSIVE SwissRowsToEnd(_, _, _, _)
SwissRowsToEnd(team_ids, i, round_num, match_num) ==
    IF i >= Len(team_ids) THEN <<>>
    ELSE <<Match(round_num, match_num, team_ids[i + 1],
                 IF i + 1 < Len(team_ids) THEN team_ids[i + 2] ELSE NULL, "group")>>
         \o SwissRowsToEnd(team_ids, i + 2, round_num, match_num + 1)

\* "for i in range(0, len(team_ids) - 1, 2)", from index i on
RECURSIVE SwissRows(_, _, _, _)
SwissRows(team_ids, i, round_num, match_num) ==
    IF i >= Len(team_ids) - 1 THEN <<>>
    ELSE <<Match(round_num, match_num, team_ids[i + 1],
                 IF i + 1 < Len(team_ids) THEN team_ids[i + 2] ELSE NULL, "group")>>
         \o SwissRows(team_ids, i + 2, round_num, match_num + 1)

\* query.filter_by(round_number).order_by(match_number).first()
FirstOfRound(ms, round_num) ==
    LET hits == {j \in 1..Len(ms) : ms[j].round_number = round_num}
    IN  IF hits = {} THEN {NULL}
        ELSE {j \in hits : \A k \in hits : ms[k].match_number >= ms[j].match_number}

create_swiss_round(ms, team_ids, round_num) ==
    LET num_teams == Len(team_ids) IN
    IF num_teams < SwissMinTeams THEN {ms}
    ELSE
        LET paired == SwissRows(team_ids, 0, round_num, 1)
            bye_match == [Match(round_num, Len(paired) + 1, team_ids[num_teams], NULL, "group")
                            EXCEPT !.is_completed = TRUE, !.winner_id = team_ids[num_teams]]
            added == ms \o paired \o (IF num_teams % 2 = 1 THEN <<bye_match>> ELSE <<>>)
        IN  MarkCurrent(added,
                {IF f # NULL /\ added[f].team1_id # NULL /\ added[f].team2_id # NULL
                 THEN f ELSE NULL : f \in FirstOfRound(added, round_num)})

(***************************************************************************)
(* The generator call of manage_tournaments / admin_start_tournament /     *)
(* test_generate_brackets: dispatch on the tournament's format.            *)
(***************************************************************************)
\* the tables the generator of format fmt may leave, given the shuffled team list
GeneratorOutcomes(fmt, ms, team_ids) ==
    CASE fmt = "single_elimination" -> {create_single_elimination_bracket(ms, team_ids)}
      [] fmt = "double_elimination" -> {create_double_elimination_bracket(ms, team_ids)}
      [] fmt = "round_robin" ->
            UNION {create_round_robin(ms, team_ids, all_pairings) :
                        all_pairings \in Shuffles(Combinations(team_ids))}
      [] fmt = "round_robin_playoffs" ->
            UNION {create_round_robin_playoffs(ms, team_ids, all_pairings) :
                        all_pairings \in Shuffles(Combinations(team_ids))}
      [] fmt = "swiss" -> create_swiss_round(ms, team_ids, 1)
      [] OTHER -> {create_single_elimination_bracket(ms, team_ids)}

NoRequest == [op |-> "none", id |-> NULL, winner |-> NULL, status |-> 0]

\* the two requests that may run concurrently
Reqs == {"a", "b"}

\* a request that has not arrived: pc is its place in the handler, read1 the
\* successor's team1_id as it read it, slot the slot it wrote (NULL: none),
\* loaded_current the is_current of its match as get_or_404 loaded it
Idle == [pc |-> "idle", id |-> NULL, winner |-> NULL, read1 |-> NULL, slot |-> NULL,
         loaded_current |-> FALSE]

Init ==
    /\ tournament \in [format : Formats, current_phase : {"registration"}]
    /\ matches = <<>>
    /\ teams = <<>>
    /\ gens = 0
    /\ calls = 0
    /\ last = NoRequest
    /\ reqs = [r \in Reqs |-> Idle]
    /\ locks = {}
    /\ elsewhere = [k \in 1..MaxOtherRows |-> k = 1]

\* one generator call with n teams
Generate(n) ==
    /\ teams' = [i \in 1..n |-> i]
    /\ \E team_ids \in Shuffles(teams') :
            matches' \in GeneratorOutcomes(tournament.format, matches, team_ids)
    /\ gens' = gens + 1
    /\ last' = [op |-> "generate", id |-> NULL, winner |-> NULL, status |-> 200]
    /\ UNCHANGED <<tournament, calls, reqs, locks, elsewhere>>

\* "tournament.min_teams or 2" with min_teams unset
StartMinTeams == 2

\* POST /tournament/<id>/start with n confirmed teams: rejected below
\* StartMinTeams, else the phase is set and the generator of the format called
StartTournament(n) ==
    IF n < StartMinTeams
    THEN /\ last' = [op |-> "start", id |-> NULL, winner |-> NULL, status |-> 400]
         /\ UNCHANGED <<tournament, matches, teams, gens, calls, reqs, locks, elsewhere>>
    ELSE /\ teams' = [i \in 1..n |-> i]
         /\ \E team_ids \in Shuffles(teams') :
                 matches' \in GeneratorOutcomes(tournament.format, matches, team_ids)
         /\ tournament' = [tournament EXCEPT !.current_phase = "bracket"]
         /\ gens' = gens + 1
         /\ last' = [op |-> "generate", id |-> NULL, winner |-> NULL, status |-> 200]
         /\ UNCHANGED <<calls, reqs, locks, elsewhere>>

(***************************************************************************)
(* Match progression: api.complete_match, external_api.complete_match,     *)
(* external_api.set_winner_auto, external_api.add_point.                   *)
(***************************************************************************)
\* always writes the winner into the first slot
AdvanceWinnerFirstSlot(ms, id, winner_id) ==
    LET next_match_id == ms[id].next_match_id IN
    IF next_match_id = NULL THEN ms
    ELSE [ms EXCEPT ![next_match_id].team1_id = winner_id]

\* writes the winner into both slots of the successor
AdvanceWinnerBothSlots(ms, id, winner_id) ==
    LET next_match_id == ms[id].next_match_id IN
    IF next_match_id = NULL THEN ms
    ELSE [ms EXCEPT ![next_match_id].team1_id = winner_id,
                    ![next_match_id].team2_id = winner_id]

\* "Advance winner to next match"
AdvanceWinner(ms, id, winner_id) ==
    LET next_match_id == ms[id].next_match_id IN
    IF next_match_id = NULL THEN ms
    ELSE IF ms[next_match_id].team1_id = NULL
         THEN [ms EXCEPT ![next_match_id].team1_id = winner_id]
         ELSE [ms EXCEPT ![next_match_id].team2_id = winner_id]

\* returns the playable row with the highest id
LastPlayable(ms) ==
    LET hits == SelectSeq([j \in 1..Len(ms) |-> j], LAMBDA j : Playable(ms[j]))
    IN  IF Len(hits) = 0 THEN NULL ELSE hits[Len(hits)]

\* Match.query.filter_by(is_completed=False).filter(team1_id, team2_id not NULL)
\* .first(): no ORDER BY; the SQLite table scan returns rows in id order
FirstPlayable(ms) ==
    LET hits == SelectSeq([j \in 1..Len(ms) |-> j], LAMBDA j : Playable(ms[j]))
    IN  IF Len(hits) = 0 THEN NULL ELSE hits[1]

\* "Set next incomplete match as current"
SetNextCurrent(ms) ==
    LET next_current == FirstPlayable(ms)
    IN  IF next_current = NULL THEN ms
        ELSE [ms EXCEPT ![next_current].is_current = TRUE]

\* the writes shared by the three completing handlers
Complete(ms, id, winner_id) ==
    SetNextCurrent(AdvanceWinner(
        [ms EXCEPT ![id].winner_id = winner_id,
                   ![id].is_completed = TRUE,
                   ![id].is_current = FALSE], id, winner_id))

\* a team id foreign to the match: the lowest one that is in neither slot
Stranger(m) ==
    LET others == {t \in 1..(Len(teams) + 1) : t \notin {m.team1_id, m.team2_id}}
    IN  CHOOSE t \in others : \A u \in others : t <= u

\* the winner_id values a request is sent with
WinnerInputs(m) == {NULL, m.team1_id, m.team2_id, Stranger(m)}

\* POST /api/match/<id>/complete (session path)
CompleteMatch(id, winner_id) ==
    /\ matches' = Complete(matches, id, winner_id)
    /\ last' = [op |-> "complete", id |-> id, winner |-> winner_id, status |-> 200]
    /\ calls' = calls + 1
    /\ UNCHANGED <<tournament, teams, gens, reqs, locks, elsewhere>>

\* the token path without its three checks
ExtCompleteMatchUnchecked(id, winner_id) ==
    /\ matches' = Complete(matches, id, winner_id)
    /\ last' = [op |-> "ext_complete", id |-> id, winner |-> winner_id, status |-> 200]
    /\ calls' = calls + 1
    /\ UNCHANGED <<tournament, teams, gens, reqs, locks, elsewhere>>

\* POST /ext/v1/match/<id>/complete (token path)
ExtCompleteMatch(id, winner_id) ==
    LET match == matches[id]
        rejected == \/ match.is_completed
                    \/ winner_id = NULL
                    \/ winner_id \notin {match.team1_id, match.team2_id}
    IN  /\ matches' = IF rejected THEN matches ELSE Complete(matches, id, winner_id)
        /\ last' = [op |-> "ext_complete", id |-> id, winner |-> winner_id,
                    status |-> IF rejected THEN 400 ELSE 200]
        /\ calls' = calls + 1
        /\ UNCHANGED <<tournament, teams, gens, reqs, locks, elsewhere>>

\* POST /ext/v1/match/<id>/set-winner; force_team is NULL when absent
SetWinnerAuto(id, force_team) ==
    LET match == matches[id]
        tied == force_team \notin {1, 2} /\ match.team1_score = match.team2_score
        rejected == match.is_completed \/ tied
        winner_id == IF force_team = 1 THEN match.team1_id
                     ELSE IF force_team = 2 THEN match.team2_id
                     ELSE IF match.team1_score > match.team2_score THEN match.team1_id
                     ELSE match.team2_id
    IN  /\ matches' = IF rejected THEN matches ELSE Complete(matches, id, winner_id)
        /\ last' = [op |-> "set_winner", id |-> id,
                    winner |-> IF rejected THEN NULL ELSE winner_id,
                    status |-> IF rejected THEN 400 ELSE 200,
                    force_team |-> force_team]
        /\ calls' = calls + 1
        /\ UNCHANGED <<tournament, teams, gens, reqs, locks, elsewhere>>

\* POST /ext/v1/match/<id>/add-point with team 1 or 2
AddPoint(id, team) ==
    LET match == matches[id]
        rejected == match.is_completed
    IN  /\ matches' = IF rejected THEN matches
                      ELSE IF team = 1
                      THEN [matches EXCEPT ![id].team1_score = @ + 1]
                      ELSE [matches EXCEPT ![id].team2_score = @ + 1]
        /\ last' = [op |-> "add_point", id |-> id, winner |-> NULL,
                    status |-> IF rejected THEN 400 ELSE 200]
        /\ calls' = calls + 1
        /\ UNCHANGED <<tournament, teams, gens, reqs, locks, elsewhere>>

(***************************************************************************)
(* Standings and playoff seeding: admin.calculate_standings,               *)
(* admin.advance_to_playoffs.                                              *)
(***************************************************************************)
\* the keys of team_stats in insertion order: the teams of the completed
\* matches, team1 before team2, in the order the query returns the matches
RECURSIVE SeenOrder(_, _, _)
SeenOrder(ms, i, seen) ==
    IF i > Len(ms) THEN seen
    ELSE LET m == ms[i]
             Has(q, t) == \E k \in 1..Len(q) : q[k] = t
             s1 == IF m.is_completed /\ m.team1_id # NULL /\ ~Has(seen, m.team1_id)
                   THEN Append(seen, m.team1_id) ELSE seen
             s2 == IF m.is_completed /\ m.team2_id # NULL /\ ~Has(s1, m.team2_id)
                   THEN Append(s1, m.team2_id) ELSE s1
         IN  SeenOrder(ms, i + 1, s2)

\* team_stats[t] accumulated over the completed matches from index i on
RECURSIVE TeamStats(_, _, _)
TeamStats(ms, t, i) ==
    IF i > Len(ms) THEN [wins |-> 0, losses |-> 0, points_for |-> 0,
                         points_against |-> 0, matches_played |-> 0]
    ELSE LET m == ms[i]
             rest == TeamStats(ms, t, i + 1)
             as1 == m.is_completed /\ m.team1_id = t
             as2 == m.is_completed /\ m.team2_id = t
         IN  [wins |-> rest.wins
                        + (IF as1 /\ m.winner_id = m.team1_id THEN 1 ELSE 0)
                        + (IF as2 /\ m.winner_id = m.team2_id THEN 1 ELSE 0),
              losses |-> rest.losses
                        + (IF as1 /\ m.winner_id # m.team1_id /\ m.winner_id # NULL
                           THEN 1 ELSE 0)
                        + (IF as2 /\ m.winner_id # m.team2_id /\ m.winner_id # NULL
                           THEN 1 ELSE 0),
              matches_played |-> rest.matches_played
                        + (IF as1 THEN 1 ELSE 0) + (IF as2 THEN 1 ELSE 0),
              points_for |-> rest.points_for
                        + (IF as1 THEN m.team1_score ELSE 0)
                        + (IF as2 THEN m.team2_score ELSE 0),
              points_against |-> rest.points_against
                        + (IF as1 /\ m.team2_id # NULL THEN m.team2_score ELSE 0)
                        + (IF as2 THEN m.team1_score ELSE 0)]

\* the sort key compared the other way round: the sort without reverse=True
KeyLess(a, b) ==
    LET da == a.points_for - a.points_against
        db == b.points_for - b.points_against
    IN  \/ a.wins < b.wins
        \/ a.wins = b.wins /\ da < db
        \/ a.wins = b.wins /\ da = db /\ a.points_for < b.points_for

\* the sort key (wins, point_diff, points_for) of a compared with that of b
KeyGreater(a, b) ==
    LET da == a.points_for - a.points_against
        db == b.points_for - b.points_against
    IN  \/ a.wins > b.wins
        \/ a.wins = b.wins /\ da > db
        \/ a.wins = b.wins /\ da = db /\ a.points_for > b.points_for

\* team_stats as a list in insertion order: entry k is the entry of order[k]
RECURSIVE StatsOf(_, _, _)
StatsOf(ms, order, k) ==
    IF k > Len(order) THEN <<>>
    ELSE <<TeamStats(ms, order[k], 1)>> \o StatsOf(ms, order, k + 1)

\* standings.sort(key=(wins, point_diff, points_for), reverse=True), from rank
\* r on: the sort is stable, equal keys keep the insertion order of team_stats
RECURSIVE Sorted(_, _, _)
Sorted(order, stats, r) ==
    IF r > Len(order) THEN <<>>
    ELSE LET Ahead(j, k) == \/ KeyGreater(stats[j], stats[k])
                            \/ ~KeyGreater(stats[k], stats[j]) /\ j < k
         IN  <<order[CHOOSE k \in 1..Len(order) :
                        Cardinality({j \in 1..Len(order) : Ahead(j, k)}) = r - 1]>>
             \o Sorted(order, stats, r + 1)

\* the team ids of the standings, rank 1 first
calculate_standings(ms) ==
    LET order == SeenOrder(ms, 1, <<>>)
    IN  Sorted(order, StatsOf(ms, order, 1), 1)

\* the ids of the matches of round 100, ordered by match_number
Semifinals(ms) ==
    LET hits == {id \in 1..Len(ms) : ms[id].round_number = 100}
        Ahead(j, k) == \/ ms[j].match_number < ms[k].match_number
                       \/ ms[j].match_number = ms[k].match_number /\ j < k
    IN  [r \in 1..Cardinality(hits) |->
            CHOOSE k \in hits : Cardinality({j \in hits : Ahead(j, k)}) = r - 1]

\* seeding that pairs neighbours in the standings: 1st v 2nd, 3rd v 4th
SeedNeighbours(standings) ==
    <<<<standings[1], standings[2]>>, <<standings[3], standings[4]>>>>

\* the seeding: semifinal 1 is 1st v 4th, semifinal 2 is 2nd v 3rd
Seeding(standings) ==
    <<<<standings[1], standings[4]>>, <<standings[2], standings[3]>>>>

\* POST /tournaments/<id>/advance-to-playoffs
AdvanceToPlayoffs ==
    LET standings == calculate_standings(matches)
        semifinals == Semifinals(matches)
        seeded == /\ tournament.format = "round_robin_playoffs"
                  /\ Len(standings) >= 4
                  /\ Len(semifinals) >= 2
    IN  /\ matches' = IF ~seeded THEN matches
                      ELSE [matches EXCEPT
                              ![semifinals[1]].team1_id = Seeding(standings)[1][1],
                              ![semifinals[1]].team2_id = Seeding(standings)[1][2],
                              ![semifinals[1]].is_current = TRUE,
                              ![semifinals[2]].team1_id = Seeding(standings)[2][1],
                              ![semifinals[2]].team2_id = Seeding(standings)[2][2]]
        /\ tournament' = IF ~seeded THEN tournament
                         ELSE [tournament EXCEPT !.current_phase = "playoffs"]
        /\ last' = [op |-> "advance_to_playoffs", id |-> NULL, winner |-> NULL,
                    status |-> 302]
        /\ UNCHANGED <<teams, gens, calls, reqs, locks, elsewhere>>

(***************************************************************************)
(* Session-path edits of one match: api.update_score, api.swap_teams.      *)
(***************************************************************************)
\* the key is not in the request body
Absent == 0 - 1

\* POST /api/match/<id>/score with body {team1_score: s1, team2_score: s2},
\* either key possibly absent
UpdateScore(id, s1, s2) ==
    /\ matches' = [matches EXCEPT
                     ![id].team1_score = IF s1 = Absent THEN @ ELSE s1,
                     ![id].team2_score = IF s2 = Absent THEN @ ELSE s2]
    /\ last' = [op |-> "score", id |-> id, winner |-> NULL, status |-> 200]
    /\ calls' = calls + 1
    /\ UNCHANGED <<tournament, teams, gens, reqs, locks, elsewhere>>

\* sets the flag of the match and clears none
AlsoCurrent(ms, id) == [ms EXCEPT ![id].is_current = TRUE]

\* Match.query.filter_by(tournament_id=..., is_current=True)
\*      .update({'is_current': False}); match.is_current = True
\* (the bulk UPDATE is synchronised into the session, so the assignment that
\* follows is a change also when the match was current)
OnlyCurrent(ms, id) ==
    [k \in 1..Len(ms) |-> [ms[k] EXCEPT !.is_current = (k = id)]]

\* the number of rows the bulk UPDATE matches
CurrentRows(ms) == Cardinality({k \in 1..Len(ms) : ms[k].is_current})

\* POST /api/match/<id>/set-current
SetCurrentMatch(id) ==
    /\ matches' = OnlyCurrent(matches, id)
    /\ last' = [op |-> "set_current", id |-> id, winner |-> NULL, status |-> 200,
                cleared |-> CurrentRows(matches)]
    /\ calls' = calls + 1
    /\ UNCHANGED <<tournament, teams, gens, reqs, locks, elsewhere>>

\* the same request for match k of the second tournament
SetCurrentElsewhere(k) ==
    /\ elsewhere' = [j \in 1..Len(elsewhere) |-> j = k]
    /\ last' = [op |-> "set_current_elsewhere", id |-> k, winner |-> NULL, status |-> 200,
                cleared |-> Cardinality({j \in 1..Len(elsewhere) : elsewhere[j]})]
    /\ calls' = calls + 1
    /\ UNCHANGED <<tournament, matches, teams, gens, reqs, locks>>

\* the values of the form field `action`; "save" stands for any other value
EditActions == {"save", "mark_complete", "reset", "set_current"}

\* POST /admin/match/<id>/edit with the form fields team1_id, team2_id (NULL:
\* empty), team1_score, team2_score, action and winner_id
EditMatch(id, team1_id, team2_id, team1_score, team2_score, action, winner_id) ==
    LET edited == [matches EXCEPT ![id].team1_id = team1_id,
                                  ![id].team2_id = team2_id,
                                  ![id].team1_score = team1_score,
                                  ![id].team2_score = team2_score]
    IN  /\ matches' =
              CASE action = "mark_complete" ->
                      [edited EXCEPT ![id].is_completed = TRUE,
                                     ![id].is_current = FALSE,
                                     ![id].winner_id = winner_id]
                [] action = "reset" ->
                      [edited EXCEPT ![id].is_completed = FALSE,
                                     ![id].winner_id = NULL,
                                     ![id].team1_score = 0,
                                     ![id].team2_score = 0]
                [] action = "set_current" ->
                      [OnlyCurrent(edited, id) EXCEPT ![id].is_completed = FALSE]
                [] OTHER -> edited
        /\ last' = [op |-> "edit_match", id |-> id, winner |-> NULL, status |-> 302,
                    action |-> action,
                    cleared |-> IF action = "set_current" THEN CurrentRows(matches) ELSE 0]
        /\ calls' = calls + 1
        /\ UNCHANGED <<tournament, teams, gens, reqs, locks, elsewhere>>

\* the swap that leaves the scores where they are
SwapIdsOnly(m) == [m EXCEPT !.team1_id = m.team2_id, !.team2_id = m.team1_id]

\* team ids and scores of the two sides exchanged
Swapped(m) ==
    [m EXCEPT !.team1_id = m.team2_id, !.team2_id = m.team1_id,
              !.team1_score = m.team2_score, !.team2_score = m.team1_score]

\* POST /api/match/<id>/swap-teams
SwapTeams(id) ==
    /\ matches' = [matches EXCEPT ![id] = Swapped(matches[id])]
    /\ last' = [op |-> "swap_teams", id |-> id, winner |-> NULL, status |-> 200]
    /\ calls' = calls + 1
    /\ UNCHANGED <<tournament, teams, gens, reqs, locks, elsewhere>>

(***************************************************************************)
(* Next-match scheduling: api.get_next_match.                              *)
(***************************************************************************)
\* the filter without "is_current == False"
UpcomingOrCurrent(m) == ~m.is_completed /\ m.team1_id # NULL /\ m.team2_id # NULL

\* the filter of the playable_matches query
Upcoming(m) ==
    ~m.is_completed /\ ~m.is_current /\ m.team1_id # NULL /\ m.team2_id # NULL

\* the ids of the playable_matches query, ordered by (round_number, match_number)
playable_matches(ms) ==
    LET hits == {id \in 1..Len(ms) : Upcoming(ms[id])}
        Ahead(j, k) == \/ Before(ms[j], ms[k])
                       \/ ~Before(ms[k], ms[j]) /\ j < k
    IN  [r \in 1..Cardinality(hits) |->
            CHOOSE k \in hits : Cardinality({j \in hits : Ahead(j, k)}) = r - 1]

\* the completed match with the highest id, NULL when none is completed
last_completed(ms) ==
    LET done == {id \in 1..Len(ms) : ms[id].is_completed}
    IN  IF done = {} THEN NULL ELSE CHOOSE id \in done : \A k \in done : k <= id

\* the teams of the last completed match
teams_on_field(ms) ==
    IF last_completed(ms) = NULL THEN {}
    ELSE {ms[last_completed(ms)].team1_id, ms[last_completed(ms)].team2_id} \ {NULL}

\* a key that gives continuity no priority
no_priority_key(m, on_field) == 1

\* 0 for a match with a team on the field, else 1
priority_sort_key(m, on_field) ==
    IF m.team1_id \in on_field \/ m.team2_id \in on_field THEN 0 ELSE 1

\* the answer of get_next_match: NULL, or the id of the first match after the
\* stable sort by priority_sort_key, with its is_continuity flag
get_next_match(ms) ==
    LET playable == playable_matches(ms)
        on_field == teams_on_field(ms)
        firsts == {r \in 1..Len(playable) : priority_sort_key(ms[playable[r]], on_field) = 0}
        pick == IF firsts = {} THEN 1 ELSE CHOOSE r \in firsts : \A q \in firsts : r <= q
    IN  IF Len(playable) = 0 THEN [id |-> NULL, is_continuity |-> FALSE]
        ELSE [id |-> playable[pick],
              is_continuity |-> priority_sort_key(ms[playable[pick]], on_field) = 0]

\* GET /api/tournament/<id>/next-match: `last` holds the answer
GetNextMatch ==
    /\ last' = [op |-> "next_match", id |-> get_next_match(matches).id, winner |-> NULL,
                status |-> 200, is_continuity |-> get_next_match(matches).is_continuity]
    /\ UNCHANGED <<tournament, matches, teams, gens, calls, reqs, locks, elsewhere>>

(***************************************************************************)
(* Spec: one generator call on a fresh tournament, then match requests.    *)
(***************************************************************************)
Ids == 1..Len(matches)

GenerateBracket == gens = 0 /\ \E n \in 0..MaxTeams : Generate(n)

SessionComplete ==
    /\ gens > 0 /\ calls < MaxCalls
    /\ \E id \in Ids : \E w \in WinnerInputs(matches[id]) : CompleteMatch(id, w)

TokenComplete ==
    /\ gens > 0 /\ calls < MaxCalls
    /\ \E id \in Ids : \E w \in WinnerInputs(matches[id]) : ExtCompleteMatch(id, w)

TokenSetWinner ==
    /\ gens > 0 /\ calls < MaxCalls
    /\ \E id \in Ids : \E force_team \in {NULL, 1, 2} : SetWinnerAuto(id, force_team)

TokenAddPoint ==
    /\ gens > 0 /\ calls < MaxCalls
    /\ \E id \in Ids : \E team \in {1, 2} :
            /\ (IF team = 1 THEN matches[id].team1_score ELSE matches[id].team2_score) < MaxScore
            /\ AddPoint(id, team)

Next == GenerateBracket \/ SessionComplete \/ TokenComplete \/ TokenSetWinner \/ TokenAddPoint

Spec == Init /\ [][Next]_vars

(***************************************************************************)
(* SpecGen: one generator call on a fresh tournament.  SpecRegen: repeated  *)
(* generator calls on one tournament.                                      *)
(***************************************************************************)
GenerateFresh == gens = 0 /\ \E n \in 0..MaxGenTeams : Generate(n)

NextGen == GenerateFresh

SpecGen == Init /\ [][NextGen]_vars

Regenerate ==
    /\ gens < MaxGenCalls
    /\ Len(matches) <= MaxRows
    /\ \E n \in 0..MaxRegenTeams : Generate(n)

NextRegen == Regenerate

SpecRegen == Init /\ [][NextRegen]_vars

(***************************************************************************)
(* SpecToken: a single-elimination bracket driven only by token-path       *)
(* completions, sent for any match with any winner_id.                     *)
(***************************************************************************)
InitSE == Init /\ tournament.format = "single_elimination"

GenerateCup ==
    /\ gens = 0
    /\ \E n \in 2..MaxTokenTeams : Generate(n)

TokenCall ==
    /\ gens > 0 /\ calls < MaxTokenCalls
    /\ \E id \in 1..Len(matches) : \E w \in WinnerInputs(matches[id]) : ExtCompleteMatch(id, w)

NextToken == GenerateCup \/ TokenCall

SpecToken == InitSE /\ [][NextToken]_vars

(***************************************************************************)
(* SpecCurrent: a tournament generated once, whose matches are completed   *)
(* over the session path, edited by the admin and made current by hand,    *)
(* next to a second tournament whose current match is set as well.         *)
(***************************************************************************)
GenerateOne == gens = 0 /\ \E n \in 2..MaxCurrentTeams : Generate(n)

CompleteByHand ==
    /\ gens > 0 /\ calls < MaxCurrentCalls
    /\ \E id \in 1..Len(matches) : \E w \in WinnerInputs(matches[id]) : CompleteMatch(id, w)

SetCurrent ==
    /\ gens > 0 /\ calls < MaxCurrentCalls
    /\ \E id \in 1..Len(matches) : SetCurrentMatch(id)

SetCurrentOther ==
    /\ gens > 0 /\ calls < MaxCurrentCalls
    /\ \E k \in 1..Len(elsewhere) : SetCurrentElsewhere(k)

\* the form saved with slots as shown or emptied and any scores, no action
EditFields ==
    /\ gens > 0 /\ calls < MaxCurrentCalls
    /\ \E id \in 1..Len(matches) :
        \E team1_id \in {NULL, matches[id].team1_id}, team2_id \in {NULL, matches[id].team2_id},
           team1_score, team2_score \in 0..MaxScore :
            EditMatch(id, team1_id, team2_id, team1_score, team2_score, "save", NULL)

\* the form sent as shown with one of the three actions
EditAction ==
    /\ gens > 0 /\ calls < MaxCurrentCalls
    /\ \E id \in 1..Len(matches) :
        \E action \in EditActions \ {"save"}, winner_id \in {NULL, matches[id].team1_id} :
            EditMatch(id, matches[id].team1_id, matches[id].team2_id,
                      matches[id].team1_score, matches[id].team2_score, action, winner_id)

NextCurrent ==
    GenerateOne \/ CompleteByHand \/ SetCurrent \/ SetCurrentOther \/ EditFields \/ EditAction

SpecCurrent == Init /\ [][NextCurrent]_vars

(***************************************************************************)
(* SpecSession, SpecPlay: a single-elimination bracket driven over the     *)
(* session path, by arbitrary requests or by an operator who completes the *)
(* current match with one of its two teams.                                *)
(***************************************************************************)
GenerateSE == gens = 0 /\ \E n \in 2..MaxBracketTeams : Generate(n)

SessionCall ==
    /\ gens > 0 /\ calls < MaxSessionCalls
    /\ \E id \in Ids : \E w \in WinnerInputs(matches[id]) : CompleteMatch(id, w)

NextSession == GenerateSE \/ SessionCall

SpecSession == InitSE /\ [][NextSession]_vars

PlayCurrent ==
    /\ gens > 0
    /\ \E id \in Ids :
            /\ matches[id].is_current
            /\ \E w \in {matches[id].team1_id, matches[id].team2_id} : CompleteMatch(id, w)

NextPlay == GenerateSE \/ PlayCurrent

SpecPlay == InitSE /\ [][NextPlay]_vars

(***************************************************************************)
(* SpecLeague, FairLeague: a round robin generated once and played by an   *)
(* operator who completes the current match with one of its two teams.     *)
(* FairLeague adds that the operator does so whenever a match is current.  *)
(***************************************************************************)
InitLeague == Init /\ tournament.format = "round_robin"

GenerateLeague == gens = 0 /\ \E n \in 3..MaxLeagueTeams : Generate(n)

NextLeague == GenerateLeague \/ PlayCurrent

SpecLeague == InitLeague /\ [][NextLeague]_vars

FairLeague == SpecLeague /\ WF_vars(PlayCurrent)

(***************************************************************************)
(* SpecPlayoffs: a bracket generated once, by a generator call or by the   *)
(* start handler, then results recorded by the operator (points for a      *)
(* current match, a current match completed with one of its teams) and     *)
(* calls of advance_to_playoffs at any moment.                             *)
(***************************************************************************)
GenerateGroup == gens = 0 /\ \E n \in 4..MaxPlayoffTeams : Generate(n)

StartGroup == gens = 0 /\ \E n \in 4..MaxPlayoffTeams : StartTournament(n)

ScoreCurrent ==
    /\ gens > 0 /\ calls < MaxPlayoffCalls
    /\ \E id \in 1..Len(matches) : \E team \in {1, 2} :
            /\ matches[id].is_current
            /\ (IF team = 1 THEN matches[id].team1_score ELSE matches[id].team2_score) < MaxScore
            /\ AddPoint(id, team)

RecordResult ==
    /\ gens > 0 /\ calls < MaxPlayoffCalls
    /\ \E id \in 1..Len(matches) :
            /\ matches[id].is_current /\ Playable(matches[id])
            /\ \E w \in {matches[id].team1_id, matches[id].team2_id} : CompleteMatch(id, w)

Advance == gens > 0 /\ AdvanceToPlayoffs

NextPlayoffs == GenerateGroup \/ StartGroup \/ ScoreCurrent \/ RecordResult \/ Advance

SpecPlayoffs == Init /\ [][NextPlayoffs]_vars

(***************************************************************************)
(* SpecFinals: a round-robin + playoffs tournament played to the end: the  *)
(* operator completes the current match with one of its teams, and calls   *)
(* advance_to_playoffs once, when every group match is completed.          *)
(***************************************************************************)
InitRRP == Init /\ tournament.format = "round_robin_playoffs"

GenerateRRP == gens = 0 /\ \E n \in 5..MaxFinalsTeams : Generate(n)

GroupStageDone ==
    \A id \in 1..Len(matches) :
        matches[id].match_type = "group" => matches[id].is_completed

AdvanceAfterGroups ==
    /\ gens > 0 /\ GroupStageDone
    /\ tournament.current_phase # "playoffs"
    /\ AdvanceToPlayoffs

NextFinals == GenerateRRP \/ PlayCurrent \/ AdvanceAfterGroups

SpecFinals == InitRRP /\ [][NextFinals]_vars

(***************************************************************************)
(* SpecStandings: a tournament of a format that shows standings (round     *)
(* robin, round robin + playoffs, Swiss), generated once, then session     *)
(* requests on any match: scores posted, sides swapped, matches completed  *)
(* with one of the teams or with no winner.                                *)
(***************************************************************************)
StandingsFormats == {"round_robin", "round_robin_playoffs", "swiss"}

InitStandings == Init /\ tournament.format \in StandingsFormats

GenerateTable == gens = 0 /\ \E n \in 3..MaxStandingsTeams : Generate(n)

PostScore ==
    /\ gens > 0 /\ calls < MaxStandingsCalls
    /\ \E id \in 1..Len(matches) : \E s1, s2 \in {Absent} \cup 0..MaxScore :
            UpdateScore(id, s1, s2)

SwapSides ==
    /\ gens > 0 /\ calls < MaxStandingsCalls
    /\ \E id \in 1..Len(matches) : SwapTeams(id)

CompleteAny ==
    /\ gens > 0 /\ calls < MaxStandingsCalls
    /\ \E id \in 1..Len(matches) :
        \E w \in {NULL, matches[id].team1_id, matches[id].team2_id} : CompleteMatch(id, w)

NextStandings == GenerateTable \/ PostScore \/ SwapSides \/ CompleteAny

SpecStandings == InitStandings /\ [][NextStandings]_vars

(***************************************************************************)
(* SpecNext: a tournament generated once, matches completed over the       *)
(* session path with one of their teams, and the next match asked for at   *)
(* any moment.                                                             *)
(***************************************************************************)
GenerateSchedule == gens = 0 /\ \E n \in 2..MaxNextTeams : Generate(n)

CompleteSome ==
    /\ gens > 0 /\ calls < MaxNextCalls
    /\ \E id \in 1..Len(matches) :
        /\ matches[id].team1_id # NULL /\ matches[id].team2_id # NULL
        /\ \E w \in {matches[id].team1_id, matches[id].team2_id} : CompleteMatch(id, w)

AskNext == gens > 0 /\ GetNextMatch

NextNext == GenerateSchedule \/ CompleteSome \/ AskNext

SpecNext == Init /\ [][NextNext]_vars


(***************************************************************************)
(* SpecRace: two complete_match requests run concurrently, each in its own *)
(* database session and transaction.  `matches` is the committed table; a  *)
(* request's writes stay in its transaction until it commits.  A request's *)
(* steps: load the match and mark it completed; SELECT the successor FOR   *)
(* UPDATE (waits while another transaction holds the row); write a slot;   *)
(* pick the next current match and commit.                                 *)
(***************************************************************************)
\* match = get_or_404(id); winner_id, is_completed, is_current set in the session
ReqStart(r, id, winner_id) ==
    /\ reqs[r].pc = "idle"
    /\ reqs' = [reqs EXCEPT ![r] = [Idle EXCEPT !.pc = "marked", !.id = id,
                                                !.winner = winner_id,
                                                !.loaded_current = matches[id].is_current]]
    /\ UNCHANGED <<tournament, matches, teams, gens, calls, last, locks, elsewhere>>

\* takes the row lock without waiting for its holder
ReqLockNoWait(r) ==
    LET next_match_id == matches[reqs[r].id].next_match_id IN
    /\ reqs[r].pc = "marked"
    /\ IF next_match_id = NULL
       THEN /\ reqs' = [reqs EXCEPT ![r].pc = "written"]
            /\ UNCHANGED locks
       ELSE /\ locks' = locks \cup {<<r, next_match_id>>}
            /\ reqs' = [reqs EXCEPT ![r].pc = "locked",
                                    ![r].read1 = matches[next_match_id].team1_id]
    /\ UNCHANGED <<tournament, matches, teams, gens, calls, last, elsewhere>>

\* next_match = db.session.get(Match, next_match_id, with_for_update=True)
ReqLock(r) ==
    LET next_match_id == matches[reqs[r].id].next_match_id IN
    /\ reqs[r].pc = "marked"
    /\ IF next_match_id = NULL
       THEN /\ reqs' = [reqs EXCEPT ![r].pc = "written"]
            /\ UNCHANGED locks
       ELSE /\ \A q \in Reqs : <<q, next_match_id>> \notin locks
            /\ locks' = locks \cup {<<r, next_match_id>>}
            /\ reqs' = [reqs EXCEPT ![r].pc = "locked",
                                    ![r].read1 = matches[next_match_id].team1_id]
    /\ UNCHANGED <<tournament, matches, teams, gens, calls, last, elsewhere>>

\* "if next_match.team1_id is None: team1_id = winner_id else: team2_id = winner_id"
ReqWrite(r) ==
    /\ reqs[r].pc = "locked"
    /\ reqs' = [reqs EXCEPT ![r].pc = "written",
                            ![r].slot = IF reqs[r].read1 = NULL THEN 1 ELSE 2]
    /\ UNCHANGED <<tournament, matches, teams, gens, calls, last, locks, elsewhere>>

\* the table as the request's transaction sees it: the committed rows with its
\* own writes.  The session's UPDATE of a row carries the attributes whose
\* value differs from the loaded one: `match.is_current = False` on a match
\* loaded with is_current False writes nothing to that column.
OwnView(r) ==
    LET id == reqs[r].id
        next_match_id == matches[id].next_match_id
        marked == [matches EXCEPT ![id].winner_id = reqs[r].winner,
                                  ![id].is_completed = TRUE,
                                  ![id].is_current = IF reqs[r].loaded_current THEN FALSE ELSE @]
    IN  IF reqs[r].slot = 1 THEN [marked EXCEPT ![next_match_id].team1_id = reqs[r].winner]
        ELSE IF reqs[r].slot = 2 THEN [marked EXCEPT ![next_match_id].team2_id = reqs[r].winner]
        ELSE marked

\* the next_current query, is_current = True, db.session.commit()
ReqCommit(r) ==
    /\ reqs[r].pc = "written"
    /\ matches' = SetNextCurrent(OwnView(r))
    /\ reqs' = [reqs EXCEPT ![r].pc = "done"]
    /\ locks' = {l \in locks : l[1] # r}
    /\ calls' = calls + 1
    /\ UNCHANGED <<tournament, teams, gens, last, elsewhere>>

GenerateRace == gens = 0 /\ \E n \in 2..MaxTeams : Generate(n)

Arrive ==
    /\ gens > 0
    /\ \E r \in Reqs : \E id \in Ids :
            /\ Playable(matches[id])
            /\ \E w \in {matches[id].team1_id, matches[id].team2_id} : ReqStart(r, id, w)

LockSuccessor == \E r \in Reqs : ReqLock(r)

WriteSlot == \E r \in Reqs : ReqWrite(r)

Commit == \E r \in Reqs : ReqCommit(r)

NextRace == GenerateRace \/ Arrive \/ LockSuccessor \/ WriteSlot \/ Commit

SpecRace == InitSE /\ [][NextRace]_vars

(***************************************************************************)
(* Properties.                                                             *)
(***************************************************************************)
Current == {id \in Ids : matches[id].is_current}
PlayableIds == {id \in Ids : Playable(matches[id])}

\* the playable matches with no playable match before them in (round, number) order
EarliestPlayable == {id \in PlayableIds : \A k \in PlayableIds : ~Before(matches[k], matches[id])}

Completing == {"complete", "ext_complete", "set_winner"}

\* the least team count the format requires
MinTeams(fmt) ==
    CASE fmt = "single_elimination" -> 2
      [] fmt = "double_elimination" -> 3
      [] fmt = "round_robin" -> 3
      [] fmt = "round_robin_playoffs" -> 5
      [] fmt = "swiss" -> 4

\* the state right after the generator returned on a fresh tournament with a
\* team count its format accepts
FreshlyGenerated ==
    /\ gens = 1 /\ calls = 0 /\ last.op = "generate"
    /\ Len(teams) >= MinTeams(tournament.format)

\* C1: after any sequence of session-path complete_match calls on a generated
\* bracket, at most one match has is_current = true.
C1_AtMostOneCurrent == gens = 1 => Cardinality(Current) <= 1

\* C2: a completion of a match with a successor writes the winner into the
\* successor's slot 1 if that slot was empty before the call, otherwise into
\* slot 2, and leaves the successor's other slot as it was.
C2_WinnerSlot ==
    [][(calls' = calls + 1 /\ last'.op \in Completing /\ last'.status = 200
            /\ matches[last'.id].next_match_id # NULL)
        => LET nm == matches[last'.id].next_match_id
               w == last'.winner
           IN  IF matches[nm].team1_id = NULL
               THEN matches'[nm].team1_id = w /\ matches'[nm].team2_id = matches[nm].team2_id
               ELSE matches'[nm].team2_id = w /\ matches'[nm].team1_id = matches[nm].team1_id
      ]_vars

\* a completion has just put its winner into the second slot of the successor,
\* whose first slot holds the winner of another match
C2_Witness ==
    /\ last.op = "complete" /\ last.status = 200 /\ last.winner # NULL
    /\ matches[last.id].next_match_id # NULL
    /\ matches[matches[last.id].next_match_id].team2_id = last.winner
    /\ matches[matches[last.id].next_match_id].team1_id \notin {NULL, last.winner}

\* the match of the last round (the one without a successor)
Finals == {id \in Ids : matches[id].next_match_id = NULL}

\* C3: when the operator has completed the current match until none is left,
\* the final-round match is completed and exactly n-1 matches were played.
C3_PlayedOut ==
    (gens = 1 /\ Current = {})
        => /\ \A f \in Finals : matches[f].is_completed
           /\ calls = Len(teams) - 1

\* C4: a match with a winner has it in one of its two slots.
C4_WinnerIsOccupant ==
    \A id \in Ids :
        matches[id].winner_id # NULL
            => matches[id].winner_id \in {matches[id].team1_id, matches[id].team2_id}

\* following next_match_id from id ends at a match without successor within fuel hops
RECURSIVE ReachesRoot(_, _)
ReachesRoot(id, fuel) ==
    IF matches[id].next_match_id = NULL THEN TRUE
    ELSE IF fuel = 0 THEN FALSE
    ELSE ReachesRoot(matches[id].next_match_id, fuel - 1)

LinksForward ==
    \A id \in Ids :
        /\ matches[id].next_match_id # NULL
            => /\ matches[id].next_match_id \in Ids
               /\ matches[matches[id].next_match_id].round_number > matches[id].round_number
        /\ ReachesRoot(id, Len(matches))

\* C5: every next_match_id points to a match of a strictly later round, so the
\* links end at a match without successor; no request changes a next_match_id.
C5_ForwardLinks ==
    /\ [](gens = 1 => LinksForward)
    /\ [][calls' = calls + 1
            => \A id \in Ids : matches'[id].next_match_id = matches[id].next_match_id]_vars

\* a chain of two links, after a request
C5_Witness ==
    /\ calls > 0
    /\ \E id \in Ids :
            /\ matches[id].next_match_id # NULL
            /\ matches[matches[id].next_match_id].next_match_id # NULL

\* C6: right after generation exactly one match is current, and it is the
\* earliest playable match in (round_number, match_number) order.
C6_OneCurrentAtGeneration ==
    FreshlyGenerated
        => /\ Cardinality(Current) = 1
           /\ Current = EarliestPlayable

\* a generated bracket whose current match comes after matches that are not playable
C6_Witness ==
    /\ FreshlyGenerated
    /\ \E id \in Current : Playable(matches[id])
    /\ \E id \in Ids : ~Playable(matches[id])
    /\ Cardinality(PlayableIds) >= 2

\* C7: right after a complete_match call the earliest playable match in
\* (round_number, match_number) order, if there is one, is current.
C7_EarliestPlayableIsCurrent ==
    (gens = 1 /\ last.op \in {"complete", "ext_complete"} /\ last.status = 200)
        => \A id \in EarliestPlayable : matches[id].is_current

\* a completion moved the current flag to a match of a later round while a
\* later playable match exists too
C7_Witness ==
    /\ gens = 1 /\ last.op \in {"complete", "ext_complete"} /\ last.status = 200
    /\ \E id \in EarliestPlayable : matches[id].is_current /\ id # last.id
    /\ Cardinality(PlayableIds) >= 2

\* pairs of finished requests that completed the two feeders of one successor
FeederPairs ==
    {p \in Reqs \X Reqs :
        /\ p[1] # p[2]
        /\ reqs[p[1]].pc = "done" /\ reqs[p[2]].pc = "done"
        /\ reqs[p[1]].id # reqs[p[2]].id
        /\ matches[reqs[p[1]].id].next_match_id # NULL
        /\ matches[reqs[p[1]].id].next_match_id = matches[reqs[p[2]].id].next_match_id}

\* C8: two concurrent requests that complete the two feeders of one successor
\* write different slots, and the successor ends with both winners.
C8_BothWinnersSeated ==
    \A p \in FeederPairs :
        LET nm == matches[reqs[p[1]].id].next_match_id
        IN  /\ reqs[p[1]].slot # reqs[p[2]].slot
            /\ {matches[nm].team1_id, matches[nm].team2_id}
                    = {reqs[p[1]].winner, reqs[p[2]].winner}

\* both feeders were completed, and request "a" found slot 1 taken by request "b"
C8_Witness ==
    /\ <<"a", "b">> \in FeederPairs
    /\ reqs["a"].slot = 2 /\ reqs["b"].slot = 1

\* C9: for a valid team count the generator creates at least one match and
\* every match has round_number >= 1.
C9_NonemptyRounds ==
    FreshlyGenerated
        => /\ Len(matches) >= 1
           /\ \A id \in Ids : matches[id].round_number >= 1

\* a bracket generated from exactly the least team count of its format
C9_Witness == FreshlyGenerated /\ Len(teams) = MinTeams(tournament.format)

JustGenerated == gens = 1 /\ calls = 0 /\ last.op = "generate"

\* C11: for each format and each team count of test_generate_brackets the
\* generator creates at least one match on a fresh tournament.
C11_TestCountsCreateMatches ==
    (JustGenerated /\ Len(teams) \in team_counts) => Len(matches) >= 1

\* the rows of the given match_type and round
RowsOf(mtype, round_num) ==
    {id \in Ids : matches[id].match_type = mtype /\ matches[id].round_number = round_num}

\* C12: create_round_robin_playoffs with exactly 4 teams creates 9 matches:
\* 6 group matches, 2 semifinals at round 100 and 1 finals match at round 101.
C12_PlayoffsOfFour ==
    (JustGenerated /\ tournament.format = "round_robin_playoffs" /\ Len(teams) = 4)
        => /\ Len(matches) = 9
           /\ Cardinality({id \in Ids : matches[id].match_type = "group"}) = 6
           /\ Cardinality(RowsOf("bracket", 100)) = 2
           /\ Cardinality(RowsOf("finals", 101)) = 1

\* C13: create_single_elimination_bracket with exactly 2 teams creates exactly
\* one match; it holds the two teams, is not completed, has no successor and
\* is the current match.
C13_TwoTeamFinal ==
    (JustGenerated /\ tournament.format = "single_elimination" /\ Len(teams) = 2)
        => /\ Len(matches) = 1
           /\ {matches[1].team1_id, matches[1].team2_id} = {1, 2}
           /\ ~matches[1].is_completed /\ matches[1].winner_id = NULL
           /\ matches[1].next_match_id = NULL
           /\ matches[1].is_current

\* a single-elimination bracket of two teams, seated in reversed order
C13_Witness ==
    /\ JustGenerated /\ tournament.format = "single_elimination" /\ Len(teams) = 2
    /\ Len(matches) = 1 /\ matches[1].team1_id = 2

\* C14: create_double_elimination_bracket with exactly 2 teams creates at
\* least one match.
C14_DoubleElimOfTwo ==
    (JustGenerated /\ tournament.format = "double_elimination" /\ Len(teams) = 2)
        => Len(matches) >= 1

\* the matches that hold exactly the two teams a and b
MatchesOf(a, b) == {id \in Ids : {matches[id].team1_id, matches[id].team2_id} = {a, b}}

\* C15: create_round_robin with n >= 3 teams creates n*(n-1)/2 matches, exactly
\* one for each unordered pair of different teams, every match with two
\* different teams, and no round with more than max(1, n div 2) matches.
C15_EveryPairOnce ==
    (JustGenerated /\ tournament.format = "round_robin" /\ Len(teams) >= 3)
        => LET n == Len(teams) IN
           /\ Len(matches) * 2 = n * (n - 1)
           /\ \A a, b \in 1..n : a < b => Cardinality(MatchesOf(a, b)) = 1
           /\ \A id \in Ids :
                /\ matches[id].team1_id \in 1..n /\ matches[id].team2_id \in 1..n
                /\ matches[id].team1_id # matches[id].team2_id
           /\ \A id \in Ids :
                Cardinality({k \in Ids : matches[k].round_number = matches[id].round_number})
                    <= Max(1, n \div 2)

\* a round robin of five teams: ten matches in five rounds of two
C15_Witness ==
    /\ JustGenerated /\ tournament.format = "round_robin" /\ Len(teams) = 5
    /\ Len(matches) = 10
    /\ \E id \in Ids : matches[id].round_number = 5 /\ matches[id].match_number = 2

\* the round-1 matches with exactly one populated slot
OneTeamMatches ==
    {id \in Ids : /\ matches[id].round_number = 1
                  /\ (matches[id].team1_id = NULL) # (matches[id].team2_id = NULL)}

\* the single team of a match with exactly one populated slot
OnlyTeam(id) ==
    IF matches[id].team1_id # NULL THEN matches[id].team1_id ELSE matches[id].team2_id

\* C16 (as stated): after create_single_elimination_bracket every round-1
\* match with exactly one populated slot is completed with that team as
\* winner, and the team sits in the first open slot of the next match; both
\* slots of the next match are empty when the bye is advanced, so that is slot 1.
C16_ByeInFirstOpenSlot ==
    (JustGenerated /\ tournament.format = "single_elimination")
        => \A id \in OneTeamMatches :
                /\ matches[id].is_completed
                /\ matches[id].winner_id = OnlyTeam(id)
                /\ matches[id].next_match_id # NULL
                /\ matches[matches[id].next_match_id].team1_id = OnlyTeam(id)

\* C16 (amended): after create_single_elimination_bracket every round-1 match
\* with exactly one populated slot is completed with that team as winner, and
\* the team sits in slot 1 of the next match when the match_number of the bye
\* match is odd and in slot 2 when it is even.
C16_ByeInSlotOfItsSide ==
    (JustGenerated /\ tournament.format = "single_elimination")
        => \A id \in OneTeamMatches :
                /\ matches[id].is_completed
                /\ matches[id].winner_id = OnlyTeam(id)
                /\ matches[id].next_match_id # NULL
                /\ LET nm == matches[matches[id].next_match_id]
                   IN  IF matches[id].match_number % 2 = 1
                       THEN nm.team1_id = OnlyTeam(id)
                       ELSE nm.team2_id = OnlyTeam(id) /\ nm.team1_id = NULL

\* a bye match with an even match_number: its team sits in slot 2 of the next
\* match, whose slot 1 is empty
C16_Witness ==
    /\ JustGenerated /\ tournament.format = "single_elimination"
    /\ \E id \in OneTeamMatches :
            /\ matches[id].match_number % 2 = 0
            /\ matches[matches[id].next_match_id].team2_id = OnlyTeam(id)
            /\ matches[matches[id].next_match_id].team1_id = NULL

\* the winners-bracket matches of a double-elimination tournament
Winners == {id \in Ids : matches[id].match_type = "bracket"}

\* the winners-bracket matches of round r
WinnersOfRound(r) == {id \in Winners : matches[id].round_number = r}

\* C17: after create_double_elimination_bracket with n >= 3 teams, winners
\* round r holds bracket_size / 2^r matches, and every winners match of a
\* round other than the last is linked to the winners match at position
\* floor(i/2) of the next round.
C17_WinnersBracketLinked ==
    (JustGenerated /\ tournament.format = "double_elimination" /\ Len(teams) >= 3)
        => LET num_rounds == CeilLog2(Len(teams))
               bracket_size == Pow2(num_rounds)
           IN  /\ \A r \in 1..num_rounds :
                    Cardinality(WinnersOfRound(r)) = bracket_size \div Pow2(r)
               /\ \A id \in Winners :
                    matches[id].round_number < num_rounds
                        => /\ matches[id].next_match_id \in Winners
                           /\ LET nm == matches[matches[id].next_match_id]
                              IN  /\ nm.round_number = matches[id].round_number + 1
                                  /\ nm.match_number = (matches[id].match_number - 1) \div 2 + 1

\* the teams 1..n that sit in no slot of any match
LeftOut == {t \in 1..Len(teams) : \A id \in Ids : t \notin {matches[id].team1_id, matches[id].team2_id}}

\* the number of slots that hold team t
SlotsOf(t) ==
    Cardinality({id \in Ids : matches[id].team1_id = t})
        + Cardinality({id \in Ids : matches[id].team2_id = t})

\* C18: after create_double_elimination_bracket with n >= 3 teams every team
\* occupies exactly one slot: 2n - bracket_size teams fill winners round 1 in
\* pairs, each of the other bracket_size - n teams sits in a winners round 2
\* slot, and no team is left out.
C18_EveryTeamSeated ==
    (JustGenerated /\ tournament.format = "double_elimination" /\ Len(teams) >= 3)
        => LET n == Len(teams)
               bracket_size == Pow2(CeilLog2(n))
               InRound(r) == {t \in 1..n : \E id \in WinnersOfRound(r) :
                                    t \in {matches[id].team1_id, matches[id].team2_id}}
           IN  /\ \A t \in 1..n : SlotsOf(t) = 1
               /\ LeftOut = {}
               /\ Cardinality(InRound(1)) = 2 * n - bracket_size
               /\ Cardinality(InRound(2)) = bracket_size - n
               /\ \A id \in WinnersOfRound(1) :
                    (matches[id].team1_id = NULL) = (matches[id].team2_id = NULL)

\* the matches with exactly one populated slot
ByeMatches == {id \in Ids : (matches[id].team1_id = NULL) # (matches[id].team2_id = NULL)}

\* C19: create_swiss_round with an odd team count n >= 5 creates floor(n/2)
\* matches with both slots populated and exactly one bye match, which is
\* completed, has its single team as winner and is not current; every team is
\* in exactly one match of the round.
C19_SwissOddBye ==
    (JustGenerated /\ tournament.format = "swiss"
            /\ Len(teams) >= 5 /\ Len(teams) % 2 = 1)
        => LET n == Len(teams) IN
           /\ Len(matches) = n \div 2 + 1
           /\ Cardinality({id \in Ids : matches[id].team1_id # NULL
                                        /\ matches[id].team2_id # NULL}) = n \div 2
           /\ Cardinality(ByeMatches) = 1
           /\ \A id \in ByeMatches :
                /\ matches[id].is_completed
                /\ matches[id].winner_id = OnlyTeam(id)
                /\ ~matches[id].is_current
           /\ \A t \in 1..n : SlotsOf(t) = 1
           /\ \A id \in Ids : matches[id].round_number = 1

\* a Swiss round of seven teams: three matches and the bye of the last team of
\* the shuffled list
C19_Witness ==
    /\ JustGenerated /\ tournament.format = "swiss" /\ Len(teams) = 7
    /\ Len(matches) = 4
    /\ matches[4].is_completed /\ matches[4].team2_id = NULL
    /\ matches[4].winner_id = matches[4].team1_id
    /\ matches[1].is_current

\* the match of round 100 with the given match_number
Semifinal(k) == CHOOSE id \in Ids : matches[id].round_number = 100
                                    /\ matches[id].match_number = k

\* C20: a call of advance_to_playoffs on a round_robin_playoffs tournament
\* whose standings rank at least four teams leaves semifinal 1 with rank 1 v
\* rank 4 and semifinal 2 with rank 2 v rank 3, sets current_phase to
\* 'playoffs' and marks semifinal 1 current; a call with fewer than four
\* ranked teams, or on a tournament of another format, changes no match and
\* no field of the tournament.
C20_AdvanceToPlayoffs ==
    [][(last'.op = "advance_to_playoffs" /\ gens = 1)
        => LET standings == calculate_standings(matches)
           IN  IF tournament.format = "round_robin_playoffs" /\ Len(standings) >= 4
               THEN /\ matches'[Semifinal(1)].team1_id = standings[1]
                    /\ matches'[Semifinal(1)].team2_id = standings[4]
                    /\ matches'[Semifinal(2)].team1_id = standings[2]
                    /\ matches'[Semifinal(2)].team2_id = standings[3]
                    /\ matches'[Semifinal(1)].is_current
                    /\ tournament'.current_phase = "playoffs"
               ELSE matches' = matches /\ tournament' = tournament]_vars

\* group results rank exactly four teams, a higher team id above a lower one,
\* and the call has seeded the semifinals from that ranking
C20_Witness ==
    /\ last.op = "advance_to_playoffs" /\ gens = 1
    /\ tournament.format = "round_robin_playoffs"
    /\ tournament.current_phase = "playoffs"
    /\ LET standings == calculate_standings(matches)
       IN  /\ Len(standings) = 4
           /\ standings[1] > standings[4]
           /\ matches[Semifinal(1)].team1_id = standings[1]
           /\ matches[Semifinal(1)].team2_id = standings[4]
           /\ matches[Semifinal(2)].team1_id = standings[2]
           /\ matches[Semifinal(2)].team2_id = standings[3]
           /\ matches[Semifinal(1)].is_current

\* the finals match of the playoffs: round 101
FinalsMatch == CHOOSE id \in Ids : matches[id].round_number = 101

\* C21: in a round-robin + playoffs tournament whose group stage is completed
\* and whose playoffs were seeded by advance_to_playoffs, once the operator has
\* completed the current match until none is left, the finals match is
\* completed and its two slots hold the winners of the two semifinals, one each.
C21_PlayoffsPlayedOut ==
    (gens = 1 /\ tournament.current_phase = "playoffs" /\ Current = {})
        => /\ matches[FinalsMatch].is_completed
           /\ \/ /\ matches[FinalsMatch].team1_id = matches[Semifinal(1)].winner_id
                 /\ matches[FinalsMatch].team2_id = matches[Semifinal(2)].winner_id
              \/ /\ matches[FinalsMatch].team1_id = matches[Semifinal(2)].winner_id
                 /\ matches[FinalsMatch].team2_id = matches[Semifinal(1)].winner_id

\* the standings of the state, and the statistics of the team at rank r
Standings == calculate_standings(matches)
StatsAt(r) == TeamStats(matches, Standings[r], 1)

\* (wins, point_diff, points_for) of a is lexicographically at least that of b
LexAtLeast(a, b) ==
    LET da == a.points_for - a.points_against
        db == b.points_for - b.points_against
    IN  \/ a.wins > b.wins
        \/ a.wins = b.wins /\ da > db
        \/ a.wins = b.wins /\ da = db /\ a.points_for >= b.points_for

\* C22: the list of calculate_standings is ordered by (wins, point_diff,
\* points_for), descending: an entry listed before another has a key at least
\* as great; rank is the position in the list, so no two teams share a rank
\* and no team is listed twice.
C22_StandingsSorted ==
    LET standings == Standings
        stats == StatsOf(matches, standings, 1)
    IN  /\ \A r \in 1..Len(standings) : \A q \in 1..Len(standings) :
                r < q => /\ LexAtLeast(stats[r], stats[q])
                         /\ standings[r] # standings[q]
        /\ \A r \in 1..Len(standings) : standings[r] \in 1..Len(teams)

\* standings in which wins decide one place and the point difference another,
\* and which differ from the order in which the teams came up
C22_Witness ==
    /\ Len(Standings) >= 4
    /\ StatsAt(1).wins = StatsAt(2).wins
    /\ StatsAt(1).points_for - StatsAt(1).points_against
            > StatsAt(2).points_for - StatsAt(2).points_against
    /\ StatsAt(2).wins > StatsAt(3).wins
    /\ Standings # SeenOrder(matches, 1, <<>>)

\* the completed matches that hold team t
CompletedWith(t) ==
    {id \in Ids : matches[id].is_completed /\ t \in {matches[id].team1_id, matches[id].team2_id}}

\* over the completed matches with an id of at least i: the points t scored,
\* and the points scored against it by the team in the other slot
RECURSIVE OwnPoints(_, _)
OwnPoints(t, i) ==
    IF i > Len(matches) THEN 0
    ELSE LET m == matches[i]
         IN  OwnPoints(t, i + 1)
             + (IF m.is_completed /\ m.team1_id = t THEN m.team1_score ELSE 0)
             + (IF m.is_completed /\ m.team2_id = t THEN m.team2_score ELSE 0)

RECURSIVE OpponentPoints(_, _)
OpponentPoints(t, i) ==
    IF i > Len(matches) THEN 0
    ELSE LET m == matches[i]
         IN  OpponentPoints(t, i + 1)
             + (IF m.is_completed /\ m.team1_id = t /\ m.team2_id # NULL
                THEN m.team2_score ELSE 0)
             + (IF m.is_completed /\ m.team2_id = t /\ m.team1_id # NULL
                THEN m.team1_score ELSE 0)

\* C23: for every team in a completed match the standings report
\* matches_played = the completed matches holding it, wins = those it won,
\* losses = those with a winner other than it, points_for and points_against =
\* the sums of its own and of its opponents' scores; a completed match without
\* winner counts for matches_played and points only, an uncompleted one for
\* nothing.
C23_StandingsTallies ==
    \A t \in 1..Len(teams) :
        CompletedWith(t) # {} =>
            LET stats == TeamStats(matches, t, 1)
            IN  /\ stats.matches_played = Cardinality(CompletedWith(t))
                /\ stats.wins = Cardinality({id \in CompletedWith(t) :
                                                matches[id].winner_id = t})
                /\ stats.losses = Cardinality({id \in CompletedWith(t) :
                                                matches[id].winner_id \notin {NULL, t}})
                /\ stats.points_for = OwnPoints(t, 1)
                /\ stats.points_against = OpponentPoints(t, 1)

\* the matches get_next_match chooses from, and the teams of the completed
\* match with the highest id
UpcomingIds ==
    {id \in Ids : /\ ~matches[id].is_completed /\ ~matches[id].is_current
                  /\ matches[id].team1_id # NULL /\ matches[id].team2_id # NULL}
OnField ==
    LET done == {id \in Ids : matches[id].is_completed}
    IN  IF done = {} THEN {}
        ELSE LET top == CHOOSE id \in done : \A k \in done : k <= id
             IN  {matches[top].team1_id, matches[top].team2_id} \ {NULL}
WithContinuity ==
    {id \in UpcomingIds : matches[id].team1_id \in OnField \/ matches[id].team2_id \in OnField}

\* C24: when a playable match holds a team of the completed match with the
\* highest id, get_next_match returns the earliest such match in
\* (round_number, match_number) order with is_continuity true, also when an
\* earlier playable match without such a team exists; otherwise it returns
\* the earliest playable match with is_continuity false.
C24_ContinuityFirst ==
    (last.op = "next_match" /\ gens = 1 /\ UpcomingIds # {})
        => IF WithContinuity # {}
           THEN /\ last.id \in WithContinuity
                /\ \A k \in WithContinuity : ~Before(matches[k], matches[last.id])
                /\ last.is_continuity
           ELSE /\ last.id \in UpcomingIds
                /\ \A k \in UpcomingIds : ~Before(matches[k], matches[last.id])
                /\ ~last.is_continuity

\* the answer is a match with continuity although an earlier playable match
\* without it exists
C24_Witness ==
    /\ last.op = "next_match" /\ gens = 1
    /\ last.id \in WithContinuity /\ last.is_continuity
    /\ \E k \in UpcomingIds \ WithContinuity : Before(matches[k], matches[last.id])

\* C25: get_next_match returns none exactly when no match is uncompleted, not
\* current and populated in both slots; otherwise the match returned is one of
\* the tournament that is not completed, not current and has both slots
\* populated.  The call changes no match and no field of the tournament.
C25_NextIsPlayable ==
    [][last'.op = "next_match"
        => /\ matches' = matches /\ tournament' = tournament
           /\ (last'.id = NULL) <=> (UpcomingIds = {})
           /\ last'.id # NULL => last'.id \in UpcomingIds]_vars

\* asked while a match is current and other matches wait
C25_Witness ==
    /\ last.op = "next_match" /\ last.id # NULL
    /\ Current # {} /\ Cardinality(UpcomingIds) >= 2

\* C26: on the token path a completion of a match that is already completed,
\* one without winner_id and one whose winner_id is not one of the two team
\* ids of the match are each answered with an error and change no match: not
\* the match, not its successor, no is_current flag.
C26_TokenPathRejects ==
    [][(last'.op = "ext_complete" /\ calls' = calls + 1
            /\ \/ matches[last'.id].is_completed
               \/ last'.winner = NULL
               \/ last'.winner \notin {matches[last'.id].team1_id, matches[last'.id].team2_id})
        => /\ last'.status = 400
           /\ matches' = matches /\ tournament' = tournament]_vars

\* a second completion of a match, with the other of its two teams, was rejected
C26_Witness ==
    /\ last.op = "ext_complete" /\ last.status = 400
    /\ matches[last.id].is_completed
    /\ matches[last.id].team1_id # NULL /\ matches[last.id].team2_id # NULL
    /\ matches[last.id].winner_id \in {matches[last.id].team1_id, matches[last.id].team2_id}
    /\ last.winner \in {matches[last.id].team1_id, matches[last.id].team2_id}
    /\ last.winner # matches[last.id].winner_id
    /\ matches[last.id].next_match_id # NULL

\* C27: on the session path a completion of a match that is already completed,
\* or with a winner_id that is not one of the two occupants of the match,
\* changes no slot of any match: not of the successor, not of another match.
C27_SessionPathKeepsSlots ==
    [][(last'.op = "complete" /\ calls' = calls + 1
            /\ \/ matches[last'.id].is_completed
               \/ last'.winner \notin {matches[last'.id].team1_id, matches[last'.id].team2_id})
        => \A k \in Ids : /\ matches'[k].team1_id = matches[k].team1_id
                          /\ matches'[k].team2_id = matches[k].team2_id]_vars

\* C28: in every state reached by one generation and any completions after
\* it, a completed match has a winner.
C28_CompletedHasWinner ==
    gens = 1 => \A id \in Ids : matches[id].is_completed => matches[id].winner_id # NULL

\* a match record with the team ids and the scores of its two sides exchanged
Exchanged(m) ==
    [round_number |-> m.round_number, match_number |-> m.match_number,
     team1_id |-> m.team2_id, team2_id |-> m.team1_id,
     team1_score |-> m.team2_score, team2_score |-> m.team1_score,
     winner_id |-> m.winner_id, is_current |-> m.is_current,
     is_completed |-> m.is_completed, next_match_id |-> m.next_match_id,
     match_type |-> m.match_type]

\* C29: swap_teams exchanges team1_id with team2_id and team1_score with
\* team2_score of the match and changes nothing else, neither its winner_id,
\* is_completed, is_current, next_match_id nor another match; a second
\* swap_teams gives the original match back.
C29_SwapExchangesSides ==
    [][(last'.op = "swap_teams" /\ calls' = calls + 1)
        => /\ matches'[last'.id] = Exchanged(matches[last'.id])
           /\ Exchanged(matches'[last'.id]) = matches[last'.id]
           /\ \A k \in Ids : k # last'.id => matches'[k] = matches[k]
           /\ Len(matches') = Len(matches)
           /\ tournament' = tournament]_vars

\* a swap of a match with two teams and unequal scores
C29_Witness ==
    /\ last.op = "swap_teams"
    /\ matches[last.id].team1_id # NULL /\ matches[last.id].team2_id # NULL
    /\ matches[last.id].team1_score # matches[last.id].team2_score

\* C30: set_winner_auto without force_team on an uncompleted match completes
\* it with the team of the strictly higher score as winner; with tied scores
\* it answers with an error and changes no match; on a completed match, with
\* or without force_team, it answers with an error and changes no match.
C30_SetWinnerByScore ==
    [][(last'.op = "set_winner" /\ calls' = calls + 1)
        => LET m == matches[last'.id]
           IN  IF m.is_completed \/ (last'.force_team = NULL /\ m.team1_score = m.team2_score)
               THEN last'.status = 400 /\ matches' = matches /\ tournament' = tournament
               ELSE last'.force_team = NULL
                    => /\ last'.status = 200
                       /\ matches'[last'.id].is_completed
                       /\ ~matches'[last'.id].is_current
                       /\ matches'[last'.id].winner_id # NULL
                       /\ matches'[last'.id].winner_id =
                              IF m.team1_score > m.team2_score THEN m.team1_id ELSE m.team2_id
      ]_vars

C32_TokenPathNeedsBothSlots ==
    [][(last'.op \in {"ext_complete", "set_winner"} /\ calls' = calls + 1
            /\ ~matches[last'.id].is_completed
            /\ (matches[last'.id].team1_id = NULL \/ matches[last'.id].team2_id = NULL))
        => /\ ~matches'[last'.id].is_completed
           /\ \A k \in Ids : /\ matches'[k].team1_id = matches[k].team1_id
                             /\ matches'[k].team2_id = matches[k].team2_id]_vars

\* the teams that lost match m: its occupants other than its winner
Losers(m) == {t \in {m.team1_id, m.team2_id} : t # NULL /\ t # m.winner_id}

\* C33: in a single-elimination tournament driven only by validated
\* completions no match holds the same competitor in both slots, and no
\* competitor that lost a completed match occupies a slot of a later round.
C33_LosersAreOut ==
    /\ \A id \in Ids : matches[id].team1_id # NULL => matches[id].team1_id # matches[id].team2_id
    /\ \A id \in Ids : \A k \in Ids :
            (matches[id].is_completed /\ matches[k].round_number > matches[id].round_number)
            => Losers(matches[id]) \cap {matches[k].team1_id, matches[k].team2_id} = {}

\* a bracket played to its end: every match completed, the final between two
\* winners of the round before
C33_Witness ==
    /\ Len(matches) >= 3
    /\ \A id \in Ids : matches[id].is_completed
    /\ \E id \in Ids : /\ matches[id].next_match_id = NULL
                       /\ matches[id].team1_id # NULL /\ matches[id].team2_id # NULL
                       /\ Losers(matches[id]) # {}
    /\ \E id \in Ids : matches[id].next_match_id # NULL /\ Losers(matches[id]) # {}

\* the fields of a match that no completion writes
Fixed(m) == <<m.team1_score, m.team2_score, m.round_number, m.match_number,
              m.next_match_id, m.match_type>>

\* C34: a complete_match call on match m changes only m's winner_id,
\* is_completed and is_current, one slot of m's successor and the is_current
\* flag of at most one other match; every score, round_number, match_number
\* and next_match_id, and the slots, winner_id and is_completed of every
\* other match, stay as they were.
C34_CompleteFrame ==
    [][(last'.op \in {"complete", "ext_complete"} /\ calls' = calls + 1)
        => LET m == last'.id
               successor == matches[m].next_match_id
           IN  /\ Len(matches') = Len(matches)
               /\ tournament' = tournament /\ teams' = teams
               /\ \A k \in Ids : Fixed(matches'[k]) = Fixed(matches[k])
               /\ \A k \in Ids \ {m} : /\ matches'[k].winner_id = matches[k].winner_id
                                       /\ matches'[k].is_completed = matches[k].is_completed
               /\ \A k \in Ids \ {successor} : /\ matches'[k].team1_id = matches[k].team1_id
                                               /\ matches'[k].team2_id = matches[k].team2_id
               /\ successor # NULL =>
                      \/ matches'[successor].team1_id = matches[successor].team1_id
                      \/ matches'[successor].team2_id = matches[successor].team2_id
               /\ Cardinality({k \in Ids \ {m} :
                      matches'[k].is_current # matches[k].is_current}) <= 1]_vars

\* a completion that wrote all it may write: the match completed with one of
\* its teams, that team in a slot of the successor, another match current
C34_Witness ==
    /\ last.op \in {"complete", "ext_complete"} /\ last.status = 200
    /\ last.winner # NULL
    /\ matches[last.id].is_completed /\ ~matches[last.id].is_current
    /\ matches[last.id].winner_id = last.winner
    /\ last.winner \in {matches[last.id].team1_id, matches[last.id].team2_id}
    /\ matches[last.id].next_match_id # NULL
    /\ last.winner \in {matches[matches[last.id].next_match_id].team1_id,
                        matches[matches[last.id].next_match_id].team2_id}
    /\ \E k \in Ids \ {last.id} : matches[k].is_current

\* both concurrent requests have committed, and they were for different matches
BothCommitted ==
    /\ reqs["a"].pc = "done" /\ reqs["b"].pc = "done"
    /\ reqs["a"].id # reqs["b"].id

\* C35: after two concurrent complete_match requests for two different
\* matches of one tournament have committed, in whatever order their steps
\* interleaved, at most one match is current and no match is both completed
\* and current.
C35_OneCurrentAfterRace ==
    BothCommitted
        => /\ Cardinality(Current) <= 1
           /\ \A id \in Ids : ~(matches[id].is_completed /\ matches[id].is_current)

\* C36: after set_current on match m, by the session request or by the admin
\* edit with action 'set_current', m is the only current match of its
\* tournament whatever flags were set before, and the is_current flags of the
\* matches of another tournament are as they were.
C36_SetCurrentIsExclusive ==
    [][(calls' = calls + 1
            /\ \/ last'.op = "set_current"
               \/ last'.op = "edit_match" /\ last'.action = "set_current")
        => /\ {k \in 1..Len(matches') : matches'[k].is_current} = {last'.id}
           /\ elsewhere' = elsewhere]_vars

\* a match was made current while two matches of its tournament were current
\* and a match of the second tournament was current
C36_Witness ==
    /\ last.op \in {"set_current", "edit_match"}
    /\ last.cleared >= 2
    /\ matches[last.id].is_current
    /\ \E k \in 1..Len(elsewhere) : elsewhere[k]

\* C37: after a successful advance_to_playoffs, called at any point of the
\* group stage at which the standings rank at least four competitors,
\* semifinal 1 is the only current match of the tournament.
C37_SemifinalOnlyCurrent ==
    [][(last'.op = "advance_to_playoffs" /\ gens = 1
            /\ tournament.format = "round_robin_playoffs"
            /\ tournament.current_phase # "playoffs"
            /\ Len(calculate_standings(matches)) >= 4)
        => {k \in 1..Len(matches') : matches'[k].is_current} = {Semifinal(1)}]_vars

\* every match of the tournament is completed
AllCompleted == \A id \in Ids : matches[id].is_completed

\* C38: in a round robin of n >= 3 competitors whose operator always completes
\* the current match, matches are completed in ascending (round_number,
\* match_number) order, each of the n*(n-1)/2 matches is eventually completed,
\* and once the last one is completed no match is current.
C38_LeaguePlayedInOrder ==
    /\ [][(last'.op = "complete" /\ calls' = calls + 1)
            => /\ ~matches[last'.id].is_completed
               /\ \A k \in Ids : Before(matches[k], matches[last'.id])
                                    => matches[k].is_completed]_vars
    /\ (gens = 1) ~> (/\ Len(matches) = (Len(teams) * (Len(teams) - 1)) \div 2
                      /\ AllCompleted)
    /\ [](gens = 1 /\ AllCompleted => Current = {})

\* a league of MaxLeagueTeams teams played to its end
C38_Witness ==
    /\ gens = 1 /\ Len(teams) = MaxLeagueTeams
    /\ Len(matches) = (MaxLeagueTeams * (MaxLeagueTeams - 1)) \div 2
    /\ AllCompleted /\ last.op = "complete"
    /\ calls = Len(matches)

=============================================================================
